---- MODULE Spec2Model ----
(***************************************************************************)
(* Model of the streaming-read engine of iiod (src/iiod/ops.c): the        *)
(* registry of device sessions (devlist_head), the per-device reader       *)
(* thread read_thd, the client entry point read_buffer, and write_all.     *)
(*                                                                         *)
(* Spec has one device and small requests; SpecWide adds connections that  *)
(* are not verbose, a request longer than one round and a sample larger    *)
(* than the round's byte cap; SpecTwo has two devices; SpecWA steps one    *)
(* call of write_all fwrite by fwrite.                                     *)
(*                                                                         *)
(* Every client c issues one read request, so c also names the request's   *)
(* ThdEntry record.  A DevEntry is named by the client that created it.    *)
(* Threads are numbered: client c is thread c, the reader thread of        *)
(* DevEntry s is thread NumClients + s, 0 is "no thread" (lock free).      *)
(* Pointers are client / session numbers, NULL is 0.                       *)
(*                                                                         *)
(* Platform assumptions (LP64 Linux / glibc): size_t and ssize_t are 64    *)
(* bits, unsigned int is 32 bits; SLIST_REMOVE leaves the removed          *)
(* element's own link untouched (sys/queue.h).                             *)
(***************************************************************************)
EXTENDS Integers, Sequences, FiniteSets

\* ---------------------------------------------------------------- bounds
NumClients == 2
NumDevices == 1
MaxNb == 2
\* environment faults (failed sink writes, short reads) per run
MaxFaults == 1
\* a short read returns at most this many bytes (or the full length)
MaxShort == 2
\* a sink write may fail only while the record's count stays within NbCap
NbCap == 5
\* write_all taken alone: the longest buffer and the longest sink behaviour
MaxLen == 3

\* ------------------------------------------------------ program constants
MaxBytes == 1024
EIO == 5
EAGAIN == 11
ENOMEM == 12
ENODEV == 19
EINVAL == 22

NULL == 0
NoThread == 0
\* thd->err before the reader thread assigns it (malloc'ed, never
\* initialised); assigned values are 0 or negative
Unset == 1

Clients == 1..NumClients
Sessions == 1..NumClients
Devices == 1..NumDevices
\* sample sizes a request may name (powers of two, see NbAfterWrite)
SampleSizes == {1, 2}
NbValues == 1..MaxNb

\* a request: the dev, sample_size and nb arguments of read_buffer and the
\* verbose flag of the connection (pdata->verbose)
Requests(devs, sizes, counts, modes) ==
    [dev : devs, ss : sizes, nb : counts, verbose : modes]

\* thread id of the reader thread of DevEntry s
W(s) == NumClients + s

VARIABLES
    \* --- the registry
    devlist,        \* devlist_head: sequence of DevEntry ids, head first
    devlist_lock,   \* owner thread of devlist_lock, NoThread when free
    \* --- struct DevEntry, one per session id
    sdev,           \* entry->dev (0: not allocated)
    sample_size,    \* entry->sample_size
    head,           \* entry->thdlist_head.slh_first
    thdlist_lock,   \* owner thread of entry->thdlist_lock
    \* --- locals of read_thd, one reader thread per session
    pc,             \* position of the reader thread
    ret,            \* ssize_t ret
    nb_samples,     \* unsigned long nb_samples
    cursor,         \* struct ThdEntry *thd (the loop variable)
    \* --- struct ThdEntry, one per request
    rstate,         \* "none" | "live" | "freed" (malloc / free of the record)
    next,           \* thd->next.sle_next
    nb,             \* thd->nb
    err,            \* thd->err; Unset until the reader thread assigns it
    \* --- read_buffer, one call per client
    cpc,            \* position of the client thread
    cdev, css, cnb, \* arguments dev, sample_size, nb
    verbose,        \* pdata->verbose, copied to thd->verbose (line 265)
    entry,          \* local struct DevEntry *entry
    result,         \* return value of read_buffer
    \* --- the client's sink (pdata->out)
    payload,        \* bytes of sample data written to the sink by write_all
    status,         \* status lines written to the sink (lines 130-137)
    sinkfail,       \* number of write_all calls (on any sink) that failed
    \* --- the hardware
    hwshort,        \* number of reads that returned less than requested
    \* --- the environment
    reqs,           \* the requests clients may issue (fixed by Init)
    \* --- history
    sized,          \* the records that were in the list when the current
                    \* round's batch was sized (lines 106-109)
    \* --- one call of write_all, stepped fwrite by fwrite
    wa

vars == <<devlist, devlist_lock, sdev, sample_size, head, thdlist_lock,
          pc, ret, nb_samples, cursor, rstate, next, nb, err,
          cpc, cdev, css, cnb, verbose, entry, result, payload, status,
          sinkfail, hwshort, reqs, sized, wa>>

regvars  == <<devlist, devlist_lock>>
sessvars == <<sdev, sample_size, head, thdlist_lock>>
wvars    == <<pc, ret, nb_samples, cursor>>
recvars  == <<rstate, next, nb, err>>
reqvars  == <<cdev, css, cnb, verbose, entry, result>>
sinkvars == <<payload, status, sinkfail, hwshort>>
auxvars  == <<reqs, wa>>

\* ------------------------------------------------------------- helpers

Min(a, b) == IF a < b THEN a ELSE b

\* C integer division (truncation toward zero) of an ssize_t by sample_size
CDiv(a, b) == IF a >= 0 THEN a \div b ELSE -((-a) \div b)

CeilDiv(a, b) == (a + b - 1) \div b

\* mutant of max_size: the cap taken in bytes, whatever the sample size
max_size_bytes(ss) == MaxBytes

\* line 87: unsigned int max_size = 1024 / sample_size
max_size(ss) == MaxBytes \div ss

\* the records of a waiter list, in list order, following the links from h
RECURSIVE ListFrom(_, _)
ListFrom(h, nxt) == IF h = NULL THEN <<>> ELSE <<h>> \o ListFrom(nxt[h], nxt)

ThdList(s) == ListFrom(head[s], next)

InList(s, c) == \E i \in 1..Len(ThdList(s)) : ThdList(s)[i] = c

\* mutant of ListEmpty: the emptiness test of line 101 never succeeds
ListNeverEmpty(s) == FALSE

\* SLIST_EMPTY(&entry->thdlist_head), line 101
ListEmpty(s) == head[s] = NULL

\* SLIST_FOREACH (lines 106-109): the smallest thd->nb below the start value
RECURSIVE MinNb(_, _)
MinNb(h, start) ==
    IF h = NULL THEN start
    ELSE MinNb(next[h], IF nb[h] < start THEN nb[h] ELSE start)

\* lines 202-207: first DevEntry of the registry whose dev is d, or NULL
RECURSIVE FindEntry(_, _)
FindEntry(l, d) ==
    IF l = <<>> THEN NULL
    ELSE IF sdev[Head(l)] = d THEN Head(l) ELSE FindEntry(Tail(l), d)

\* mutant of SizeMismatch: the comparison of line 211 written with <
SizeMismatchLess(e, ss) == e # NULL /\ sample_size[e] < ss

\* line 211: entry && (entry->sample_size != sample_size)
SizeMismatch(e, ss) == e # NULL /\ sample_size[e] # ss

\* SLIST_REMOVE(&entry->thdlist_head, thd, ThdEntry, next): the new head and
\* the new links.  The removed element's own link is left as it was.
HeadAfterRemove(s, c) == IF head[s] = c THEN next[c] ELSE head[s]

NextAfterRemove(s, c) ==
    IF head[s] = c THEN next
    ELSE [x \in Clients |->
            IF rstate[x] = "live" /\ x # c /\ InList(s, x) /\ next[x] = c
            THEN next[c] ELSE next[x]]

\* SLIST_REMOVE(&devlist_head, entry, DevEntry, next), line 181
RECURSIVE SeqRemove(_, _)
SeqRemove(l, s) ==
    IF l = <<>> THEN <<>>
    ELSE IF Head(l) = s THEN Tail(l) ELSE <<Head(l)>> \o SeqRemove(Tail(l), s)

\* mutant of DevlistAfterRemove: the SLIST_REMOVE of line 181 left out
DevlistKept(s) == devlist

DevlistAfterRemove(s) == SeqRemove(devlist, s)

\* pthread_cond_signal(&thd->cond): wakes the owner if it is blocked in
\* pthread_cond_wait (line 278); otherwise the signal has no effect.
Signalled(c) == [cpc EXCEPT ![c] = IF @ = "waiting" THEN "woken" ELSE @]

\* thd = SLIST_NEXT(thd) at the end of a SLIST_FOREACH body.  If the record
\* was freed by its owner meanwhile (line 283) the read is a use after free:
\* it yields the old link or NULL (the allocator's free-list link).
LinkValues(c) == IF rstate[c] = "freed" THEN {next[c], NULL} ELSE {next[c]}

\* iio_device_read_raw(dev, buf, len): a negative code, the full length or
\* a short count
HwErrors == {-ENODEV}
ReadResults(len) ==
    HwErrors \cup {r \in 0..len : r = len \/ r <= MaxShort}

\* a byte count that ends inside a sample
PartialSample(r, ss) == r > 0 /\ r % ss # 0

\* a read that returned fewer bytes than were asked for
ShortRead(r, len) == r >= 0 /\ r < len

\* iio_device_open(dev): 0 or a negative code
OpenResults == {0, -ENODEV}

\* write_all (lines 66-77).  sink lists how many bytes the stream accepts at
\* each successive fwrite (nothing once the list is used up).  The result is
\* the return value and the number of bytes that reached the stream.
RECURSIVE WriteLoop(_, _, _)
WriteLoop(len, done, sink) ==
    IF len = 0 THEN [ret |-> done, written |-> done]
    ELSE LET r == IF sink = <<>> THEN 0 ELSE Min(Head(sink), len)
         IN  IF r = 0 THEN [ret |-> -EIO, written |-> done]
             ELSE WriteLoop(len - r, done + r, Tail(sink))

write_all(len, sink) == WriteLoop(len, 0, sink)

\* the sink behaviours a round may meet: the stream takes everything at
\* once, takes it in two pieces, or makes no progress
SinkRuns(len) == {<<len>>, <<1, len>>, <<0>>}

\* lines 147-149: size_t ret2 = write_all(...); if (ret2 > 0)
\*                    thd->nb -= ret2 / sample_size;
\* r is write_all's ssize_t result.  Stored in the unsigned ret2 a negative r
\* is 2^64 + r, which is > 0; for ss a power of two (2^64 + r) / ss is
\* 2^64/ss - CeilDiv(-r, ss), and subtracting it modulo 2^32 adds
\* CeilDiv(-r, ss) to the 32-bit thd->nb (no reduction is needed while the
\* sum stays below 2^32, as it does within the bounds).
NbAfterWrite(n, r, ss) ==
    IF r = 0 THEN n
    ELSE IF r > 0 THEN n - CDiv(r, ss)
    ELSE n + CeilDiv(-r, ss)

\* line 151: if (ret2 < 0), with ret2 of the unsigned type size_t
WriteFailed(r) == FALSE

\* mutant of StatusLines: a status line only when the read failed
StatusLinesOnError(v, r) == IF r < 0 THEN 1 ELSE 0

\* lines 130-137: the status lines one pass of the distribution loop prints
\* on the record's stream before anything else: the read's result when the
\* connection is not verbose, an error message when it is verbose and the
\* read failed
StatusLines(v, r) == IF ~v THEN 1 ELSE IF r < 0 THEN 1 ELSE 0

\* the records of a list, as a set
ListSet(s) == {ThdList(s)[i] : i \in 1..Len(ThdList(s))}

\* write_all before its first fwrite: len bytes to write to a stream that
\* accepts sink[i] bytes at the i-th fwrite
WaStart(len, sink) ==
    [pc |-> "loop", len0 |-> len, sink0 |-> sink,
     len |-> len, ptr |-> 0, sink |-> sink, calls |-> 0, ret |-> 0]

\* the stream behaviours write_all is stepped against
SinkSeqs == UNION {[1..k -> 0..MaxLen] : k \in 0..MaxLen}

\* lines 285-288: the value read_buffer returns once woken
ReturnValue(e, n, ss) == IF e < 0 THEN e ELSE n * ss

\* ------------------------------------------------------------------ Init

\* the state after start-up, for clients that issue requests drawn from R
\* and a write_all call in state w
InitWith(R, w) ==
    /\ devlist = <<>>
    /\ devlist_lock = NoThread
    /\ sdev = [s \in Sessions |-> NULL]
    /\ sample_size = [s \in Sessions |-> 0]
    /\ head = [s \in Sessions |-> NULL]
    /\ thdlist_lock = [s \in Sessions |-> NoThread]
    /\ pc = [s \in Sessions |-> "none"]
    /\ ret = [s \in Sessions |-> 0]
    /\ nb_samples = [s \in Sessions |-> 0]
    /\ cursor = [s \in Sessions |-> NULL]
    /\ rstate = [c \in Clients |-> "none"]
    /\ next = [c \in Clients |-> NULL]
    /\ nb = [c \in Clients |-> 0]
    /\ err = [c \in Clients |-> Unset]
    /\ cpc = [c \in Clients |-> "start"]
    /\ cdev = [c \in Clients |-> NULL]
    /\ css = [c \in Clients |-> 0]
    /\ cnb = [c \in Clients |-> 0]
    /\ verbose = [c \in Clients |-> FALSE]
    /\ entry = [c \in Clients |-> NULL]
    /\ result = [c \in Clients |-> 0]
    /\ payload = [c \in Clients |-> 0]
    /\ status = [c \in Clients |-> 0]
    /\ sinkfail = 0
    /\ hwshort = 0
    /\ reqs = R
    /\ sized = [s \in Sessions |-> {}]
    /\ wa = w

\* requests of one or two samples of one or two bytes, verbose connections
Init ==
    InitWith(Requests(Devices, SampleSizes, NbValues, {TRUE}), WaStart(0, <<>>))

\* ------------------------------------------------- read_buffer (client c)

\* read_dev calls read_buffer(pdata, dev, nb, sample_size); line 201:
\* pthread_mutex_lock(&devlist_lock)
C_lock(c) ==
    /\ cpc[c] = "start"
    /\ devlist_lock = NoThread
    /\ \E q \in reqs :
          /\ cdev' = [cdev EXCEPT ![c] = q.dev]
          /\ css' = [css EXCEPT ![c] = q.ss]
          /\ cnb' = [cnb EXCEPT ![c] = q.nb]
          /\ verbose' = [verbose EXCEPT ![c] = q.verbose]
    /\ devlist_lock' = c
    /\ cpc' = [cpc EXCEPT ![c] = "locked"]
    /\ UNCHANGED <<auxvars, sized, devlist, sessvars, wvars, recvars, entry,
                   result, sinkvars>>

\* an early return of read_buffer with the registry lock released
FailWith(c, code) ==
    /\ devlist_lock' = NoThread
    /\ result' = [result EXCEPT ![c] = code]
    /\ cpc' = [cpc EXCEPT ![c] = "done"]

\* lines 263-266: the fields of the new record
InitRecord(c) ==
    /\ rstate' = [rstate EXCEPT ![c] = "live"]
    /\ nb' = [nb EXCEPT ![c] = cnb[c]]
    /\ UNCHANGED <<next, err>>

\* lines 202-214: the lookup finds an entry of another sample size
C_mismatch(c) ==
    /\ cpc[c] = "locked"
    /\ SizeMismatch(FindEntry(devlist, cdev[c]), css[c])
    /\ FailWith(c, -EINVAL)
    /\ UNCHANGED <<auxvars, sized, devlist, sessvars, wvars, recvars, cdev,
                   css, cnb, verbose, entry, sinkvars>>

\* lines 216-220, 228-233: malloc of the record or of the entry fails
C_nomem(c) ==
    /\ cpc[c] = "locked"
    /\ ~SizeMismatch(FindEntry(devlist, cdev[c]), css[c])
    /\ FailWith(c, -ENOMEM)
    /\ UNCHANGED <<auxvars, sized, devlist, sessvars, wvars, recvars, cdev,
                   css, cnb, verbose, entry, sinkvars>>

\* lines 202-224, 263-266: the lookup finds an entry of the same sample size
C_join(c) ==
    /\ cpc[c] = "locked"
    /\ LET e == FindEntry(devlist, cdev[c]) IN
          /\ e # NULL
          /\ ~SizeMismatch(e, css[c])
          /\ entry' = [entry EXCEPT ![c] = e]
    /\ InitRecord(c)
    /\ cpc' = [cpc EXCEPT ![c] = "attach"]
    /\ UNCHANGED <<auxvars, sized, regvars, sessvars, wvars, cdev, css, cnb,
                   verbose, result, sinkvars>>

\* lines 224-241: no entry; iio_device_open fails
C_openfail(c) ==
    /\ cpc[c] = "locked"
    /\ FindEntry(devlist, cdev[c]) = NULL
    /\ \E r \in OpenResults \ {0} : FailWith(c, r)
    /\ UNCHANGED <<auxvars, sized, devlist, sessvars, wvars, recvars, cdev,
                   css, cnb, verbose, entry, sinkvars>>

\* lines 224-258: no entry; the device is opened, pthread_create fails and
\* the device is closed again; read_buffer returns pthread_create's code
C_thdfail(c) ==
    /\ cpc[c] = "locked"
    /\ FindEntry(devlist, cdev[c]) = NULL
    /\ FailWith(c, EAGAIN)
    /\ UNCHANGED <<auxvars, sized, devlist, sessvars, wvars, recvars, cdev,
                   css, cnb, verbose, entry, sinkvars>>

\* lines 81-91: read_thd starts and runs up to its first lock
StartThread(s, ss) ==
    /\ pc' = [pc EXCEPT ![s] = "lock_dev"]
    /\ ret' = [ret EXCEPT ![s] = 0]
    /\ nb_samples' = [nb_samples EXCEPT ![s] = max_size(ss)]

\* lines 224-266: no entry; a DevEntry is created, the device opened, the
\* reader thread started and the entry inserted at the head of the registry
C_create(c) ==
    /\ cpc[c] = "locked"
    /\ FindEntry(devlist, cdev[c]) = NULL
    /\ sdev' = [sdev EXCEPT ![c] = cdev[c]]
    /\ sample_size' = [sample_size EXCEPT ![c] = css[c]]
    /\ head' = [head EXCEPT ![c] = NULL]
    /\ StartThread(c, css[c])
    /\ devlist' = <<c>> \o devlist
    /\ entry' = [entry EXCEPT ![c] = c]
    /\ InitRecord(c)
    /\ cpc' = [cpc EXCEPT ![c] = "attach"]
    /\ UNCHANGED <<auxvars, sized, devlist_lock, thdlist_lock, cursor, cdev,
                   css, cnb, verbose, result, sinkvars>>

\* line 269: pthread_mutex_lock(&entry->thdlist_lock)
C_attach(c) ==
    /\ cpc[c] = "attach"
    /\ thdlist_lock[entry[c]] = NoThread
    /\ thdlist_lock' = [thdlist_lock EXCEPT ![entry[c]] = c]
    /\ cpc' = [cpc EXCEPT ![c] = "insert"]
    /\ UNCHANGED <<auxvars, sized, regvars, sdev, sample_size, head, wvars,
                   recvars, reqvars, sinkvars>>

\* lines 270-272: SLIST_INSERT_HEAD, then both locks are released
C_insert(c) ==
    /\ cpc[c] = "insert"
    /\ next' = [next EXCEPT ![c] = head[entry[c]]]
    /\ head' = [head EXCEPT ![entry[c]] = c]
    /\ thdlist_lock' = [thdlist_lock EXCEPT ![entry[c]] = NoThread]
    /\ devlist_lock' = NoThread
    /\ cpc' = [cpc EXCEPT ![c] = "prewait"]
    /\ UNCHANGED <<auxvars, sized, devlist, sdev, sample_size, wvars, rstate,
                   nb, err, reqvars, sinkvars>>

\* lines 274-278: the private mutex is taken and the thread blocks in
\* pthread_cond_wait
C_wait(c) ==
    /\ cpc[c] = "prewait"
    /\ cpc' = [cpc EXCEPT ![c] = "waiting"]
    /\ UNCHANGED <<auxvars, sized, regvars, sessvars, wvars, recvars, reqvars,
                   sinkvars>>

\* lines 280-288: woken; flush, read thd->err, free(thd), return.  An
\* outcome that was never assigned is an uninitialised read (any value).
C_return(c) ==
    /\ cpc[c] = "woken"
    /\ \E e \in (IF err[c] = Unset THEN {0, -EIO} ELSE {err[c]}) :
          result' = [result EXCEPT ![c] = ReturnValue(e, cnb[c], css[c])]
    /\ rstate' = [rstate EXCEPT ![c] = "freed"]
    /\ cpc' = [cpc EXCEPT ![c] = "done"]
    /\ UNCHANGED <<auxvars, sized, regvars, sessvars, wvars, next, nb, err,
                   cdev, css, cnb, verbose, entry, sinkvars>>

\* ------------------------------------------- read_thd (reader thread of s)

\* line 93: pthread_mutex_lock(&devlist_lock)
W_lock_dev(s) ==
    /\ pc[s] = "lock_dev"
    /\ devlist_lock = NoThread
    /\ devlist_lock' = W(s)
    /\ pc' = [pc EXCEPT ![s] = "check"]
    /\ UNCHANGED <<auxvars, sized, devlist, sessvars, ret, nb_samples, cursor,
                   recvars, cpc, reqvars, sinkvars>>

\* lines 97-100: leave the loop after a failed read, else take thdlist_lock
W_check(s) ==
    /\ pc[s] = "check"
    /\ IF ret[s] < 0
       THEN /\ pc' = [pc EXCEPT ![s] = "exit"]
            /\ UNCHANGED thdlist_lock
       ELSE /\ thdlist_lock[s] = NoThread
            /\ thdlist_lock' = [thdlist_lock EXCEPT ![s] = W(s)]
            /\ pc' = [pc EXCEPT ![s] = "sizing"]
    /\ UNCHANGED <<auxvars, sized, regvars, sdev, sample_size, head, ret,
                   nb_samples, cursor, recvars, cpc, reqvars, sinkvars>>

\* lines 101-111: leave the loop if nobody waits, else size the batch
W_size(s) ==
    /\ pc[s] = "sizing"
    /\ IF ListEmpty(s)
       THEN /\ pc' = [pc EXCEPT ![s] = "exit"]
            /\ UNCHANGED nb_samples
            /\ UNCHANGED sized
       ELSE /\ nb_samples' = [nb_samples EXCEPT ![s] = MinNb(head[s], @)]
            /\ sized' = [sized EXCEPT ![s] = ListSet(s)]
            /\ pc' = [pc EXCEPT ![s] = "malloc"]
    /\ thdlist_lock' = [thdlist_lock EXCEPT ![s] = NoThread]
    /\ UNCHANGED <<auxvars, regvars, sdev, sample_size, head, ret, cursor,
                   recvars, cpc, reqvars, sinkvars>>

\* mutant of LockAfterMalloc: the unlock of line 120 left out
LockKeptAfterMalloc(s) == W(s)

\* line 120: the owner of devlist_lock once the buffer is allocated
LockAfterMalloc(s) == NoThread

\* mutant of LockAfterMallocFail: devlist_lock released before the break
LockDroppedAfterMallocFail(s) == NoThread

\* lines 115-118: the owner of devlist_lock when malloc fails (the loop is
\* left by break, with no unlock)
LockAfterMallocFail(s) == W(s)

\* lines 113-120: allocate the buffer; on failure leave the loop with
\* -ENOMEM, else release devlist_lock before the read
W_malloc(s) ==
    /\ pc[s] = "malloc"
    /\ \/ /\ ret' = [ret EXCEPT ![s] = -ENOMEM]
          /\ pc' = [pc EXCEPT ![s] = "exit"]
          /\ devlist_lock' = LockAfterMallocFail(s)
          /\ sized' = [sized EXCEPT ![s] = {}]
       \/ /\ devlist_lock' = LockAfterMalloc(s)
          /\ pc' = [pc EXCEPT ![s] = "read"]
          /\ UNCHANGED <<ret, sized>>
    /\ UNCHANGED <<auxvars, devlist, sessvars, nb_samples, cursor, recvars,
                   cpc, reqvars, sinkvars>>

\* line 123: ret = iio_device_read_raw(entry->dev, buf, len)
W_read(s) ==
    /\ pc[s] = "read"
    /\ \E r \in ReadResults(nb_samples[s] * sample_size[s]) :
          /\ ShortRead(r, nb_samples[s] * sample_size[s])
                => hwshort + sinkfail < MaxFaults
          /\ hwshort' = IF ShortRead(r, nb_samples[s] * sample_size[s])
                        THEN hwshort + 1 ELSE hwshort
          /\ ret' = [ret EXCEPT ![s] = r]
    /\ pc' = [pc EXCEPT ![s] = "lock_thd"]
    /\ UNCHANGED <<auxvars, sized, regvars, sessvars, nb_samples, cursor,
                   recvars, cpc, reqvars, payload, status, sinkfail>>

\* mutant of SamplesRead: the byte count taken as the sample count
SamplesReadBytes(r, ss) == r

\* line 125: nb_samples = ret / sample_size
SamplesRead(r, ss) == CDiv(r, ss)

\* mutant of LockForDist: the lock of line 124 left out
LockNotTakenForDist(s) == NoThread

\* line 124: the owner of entry->thdlist_lock during the distribution
LockForDist(s) == W(s)

\* lines 124-127: take thdlist_lock, count the samples read, start the
\* distribution at the head of the list
W_lock_thd(s) ==
    /\ pc[s] = "lock_thd"
    /\ thdlist_lock[s] = NoThread
    /\ thdlist_lock' = [thdlist_lock EXCEPT ![s] = LockForDist(s)]
    /\ nb_samples' = [nb_samples EXCEPT
                         ![s] = SamplesRead(ret[s], sample_size[s])]
    /\ cursor' = [cursor EXCEPT ![s] = head[s]]
    /\ pc' = [pc EXCEPT ![s] = "dist"]
    /\ UNCHANGED <<auxvars, sized, regvars, sdev, sample_size, head, ret,
                   recvars, cpc, reqvars, sinkvars>>

\* lines 152-155 / 157-160 / 171-175: the record leaves the list, its
\* outcome is assigned and its owner is signalled
Deliver(s, c, e) ==
    /\ head' = [head EXCEPT ![s] = HeadAfterRemove(s, c)]
    /\ next' = NextAfterRemove(s, c)
    /\ err' = [err EXCEPT ![c] = e]
    /\ cpc' = Signalled(c)

\* lines 127-162: one pass of the distribution loop body, for thd = cursor
W_dist(s) ==
    /\ pc[s] = "dist"
    /\ cursor[s] # NULL
    /\ LET c == cursor[s] IN
       /\ status' = [status EXCEPT ![c] = @ + StatusLines(verbose[c], ret[s])]
       /\ IF ret[s] < 0 \/ nb_samples[s] > nb[c]
          THEN \* lines 138-139 and 144-145: continue
               /\ cursor' = [cursor EXCEPT ![s] = next[c]]
               /\ UNCHANGED <<pc, head, next, nb, err, cpc, payload,
                              sinkfail>>
          ELSE \E run \in SinkRuns(ret[s]) :
               LET w  == write_all(ret[s], run)
                   n2 == NbAfterWrite(nb[c], w.ret, sample_size[s])
               IN  /\ w.ret < 0 => hwshort + sinkfail < MaxFaults /\ n2 <= NbCap
                   /\ payload' = [payload EXCEPT ![c] = @ + w.written]
                   /\ sinkfail' = IF w.ret < 0 THEN sinkfail + 1 ELSE sinkfail
                   /\ nb' = [nb EXCEPT ![c] = n2]
                   /\ IF WriteFailed(w.ret)
                      THEN /\ Deliver(s, c, w.ret)
                           /\ pc' = [pc EXCEPT ![s] = "dist_next"]
                           /\ UNCHANGED cursor
                      ELSE IF n2 = 0
                      THEN /\ Deliver(s, c, 0)
                           /\ pc' = [pc EXCEPT ![s] = "dist_next"]
                           /\ UNCHANGED cursor
                      ELSE /\ cursor' = [cursor EXCEPT ![s] = next[c]]
                           /\ UNCHANGED <<pc, head, next, err, cpc>>
    /\ UNCHANGED <<auxvars, sized, regvars, sdev, sample_size, thdlist_lock,
                   ret, nb_samples, rstate, reqvars, hwshort>>

\* the SLIST_FOREACH step after a record was removed and signalled in the
\* distribution loop: thd = thd->next
W_dist_next(s) ==
    /\ pc[s] = "dist_next"
    /\ \E n \in LinkValues(cursor[s]) : cursor' = [cursor EXCEPT ![s] = n]
    /\ pc' = [pc EXCEPT ![s] = "dist"]
    /\ UNCHANGED <<auxvars, sized, regvars, sessvars, ret, nb_samples,
                   recvars, cpc, reqvars, sinkvars>>

\* mutant of LockAfterDist: the unlock of line 164 left out
LockKeptAfterDist(s) == W(s)

\* line 164: the owner of entry->thdlist_lock once the distribution is over
LockAfterDist(s) == NoThread

\* lines 164-165, 89-91: the list is exhausted; release thdlist_lock, free
\* the buffer and start the next iteration
W_dist_end(s) ==
    /\ pc[s] = "dist"
    /\ cursor[s] = NULL
    /\ thdlist_lock' = [thdlist_lock EXCEPT ![s] = LockAfterDist(s)]
    /\ nb_samples' = [nb_samples EXCEPT ![s] = max_size(sample_size[s])]
    /\ sized' = [sized EXCEPT ![s] = {}]
    /\ pc' = [pc EXCEPT ![s] = "lock_dev"]
    /\ UNCHANGED <<auxvars, regvars, sdev, sample_size, head, ret, cursor,
                   recvars, cpc, reqvars, sinkvars>>

\* line 169-170: out of the loop; take thdlist_lock and start the drain
W_drain_lock(s) ==
    /\ pc[s] = "exit"
    /\ thdlist_lock[s] = NoThread
    /\ thdlist_lock' = [thdlist_lock EXCEPT ![s] = W(s)]
    /\ cursor' = [cursor EXCEPT ![s] = head[s]]
    /\ pc' = [pc EXCEPT ![s] = "drain"]
    /\ UNCHANGED <<auxvars, sized, regvars, sdev, sample_size, head, ret,
                   nb_samples, recvars, cpc, reqvars, sinkvars>>

\* lines 170-176: one pass of the drain loop body, for thd = cursor
W_drain(s) ==
    /\ pc[s] = "drain"
    /\ cursor[s] # NULL
    /\ Deliver(s, cursor[s], IF ret[s] < 0 THEN ret[s] ELSE err[cursor[s]])
    /\ pc' = [pc EXCEPT ![s] = "drain_next"]
    /\ UNCHANGED <<auxvars, sized, regvars, sdev, sample_size, thdlist_lock,
                   ret, nb_samples, cursor, rstate, nb, reqvars, sinkvars>>

\* the SLIST_FOREACH step of the drain loop: thd = thd->next
W_drain_next(s) ==
    /\ pc[s] = "drain_next"
    /\ \E n \in LinkValues(cursor[s]) : cursor' = [cursor EXCEPT ![s] = n]
    /\ pc' = [pc EXCEPT ![s] = "drain"]
    /\ UNCHANGED <<auxvars, sized, regvars, sessvars, ret, nb_samples,
                   recvars, cpc, reqvars, sinkvars>>

\* lines 177-182: the drain is over; release thdlist_lock, remove the entry
\* from the registry, release devlist_lock
W_remove(s) ==
    /\ pc[s] = "drain"
    /\ cursor[s] = NULL
    /\ thdlist_lock' = [thdlist_lock EXCEPT ![s] = NoThread]
    /\ devlist' = DevlistAfterRemove(s)
    /\ devlist_lock' = NoThread
    /\ pc' = [pc EXCEPT ![s] = "close"]
    /\ UNCHANGED <<auxvars, sized, sdev, sample_size, head, ret, nb_samples,
                   cursor, recvars, cpc, reqvars, sinkvars>>

\* lines 184-190: iio_device_close, free(entry), the thread ends
W_close(s) ==
    /\ pc[s] = "close"
    /\ pc' = [pc EXCEPT ![s] = "done"]
    /\ UNCHANGED <<auxvars, sized, regvars, sessvars, ret, nb_samples, cursor,
                   recvars, cpc, reqvars, sinkvars>>

\* ------------------------------------------------------------------ Next

Next ==
    \/ \E c \in Clients : C_lock(c)
    \/ \E c \in Clients : C_mismatch(c)
    \/ \E c \in Clients : C_nomem(c)
    \/ \E c \in Clients : C_join(c)
    \/ \E c \in Clients : C_openfail(c)
    \/ \E c \in Clients : C_thdfail(c)
    \/ \E c \in Clients : C_create(c)
    \/ \E c \in Clients : C_attach(c)
    \/ \E c \in Clients : C_insert(c)
    \/ \E c \in Clients : C_wait(c)
    \/ \E c \in Clients : C_return(c)
    \/ \E s \in Sessions : W_lock_dev(s)
    \/ \E s \in Sessions : W_check(s)
    \/ \E s \in Sessions : W_size(s)
    \/ \E s \in Sessions : W_malloc(s)
    \/ \E s \in Sessions : W_read(s)
    \/ \E s \in Sessions : W_lock_thd(s)
    \/ \E s \in Sessions : W_dist(s)
    \/ \E s \in Sessions : W_dist_next(s)
    \/ \E s \in Sessions : W_dist_end(s)
    \/ \E s \in Sessions : W_drain_lock(s)
    \/ \E s \in Sessions : W_drain(s)
    \/ \E s \in Sessions : W_drain_next(s)
    \/ \E s \in Sessions : W_remove(s)
    \/ \E s \in Sessions : W_close(s)

Spec == Init /\ [][Next]_vars

\* requests in both connection modes, a request of more samples than one
\* round may carry (max_size(2) + 1 samples of 2 bytes) and a request whose
\* sample is larger than MaxBytes
WideRequests ==
    Requests(Devices, {1}, {2}, {FALSE})
       \cup Requests(Devices, {2}, {1}, {FALSE})
       \cup Requests(Devices, {1}, {1}, {TRUE})
       \cup Requests(Devices, {2}, {max_size(2) + 1}, {TRUE})
       \cup Requests(Devices, {2 * MaxBytes}, {1}, {TRUE})

InitWide == InitWith(WideRequests, WaStart(0, <<>>))

SpecWide == InitWide /\ [][Next]_vars

\* two devices, so that two sessions run side by side: requests of one
\* sample of one or two bytes on either device
InitTwo ==
    InitWith(Requests(1..2, SampleSizes, {1}, {TRUE}), WaStart(0, <<>>))

SpecTwo == InitTwo /\ [][Next]_vars

\* ------------------------------------------------- write_all taken alone

\* everything but the write_all call
progvars == <<regvars, sessvars, wvars, recvars, cpc, reqvars, sinkvars,
              reqs, sized>>

\* line 70: fwrite(ptr, 1, len, out) on a stream that accepts Head(sink)
\* bytes now (nothing once the list is used up)
fwrite(len, sink) == IF sink = <<>> THEN 0 ELSE Min(Head(sink), len)

\* mutant of ZeroProgress: the test of line 71 written as ret < 0
ZeroProgressNever(r) == r < 0

\* line 71: if (ret == 0)
ZeroProgress(r) == r = 0

\* lines 69-74: one iteration of while (len)
WA_fwrite ==
    /\ wa.pc = "loop"
    /\ wa.len # 0
    /\ LET r == fwrite(wa.len, wa.sink)
           rest == IF wa.sink = <<>> THEN <<>> ELSE Tail(wa.sink)
       IN  wa' = IF ZeroProgress(r)
                 THEN [wa EXCEPT !.calls = @ + 1, !.sink = rest,
                                 !.ret = -EIO, !.pc = "done"]
                 ELSE [wa EXCEPT !.calls = @ + 1, !.sink = rest,
                                 !.ptr = @ + r, !.len = @ - r]
    /\ UNCHANGED progvars

\* line 76: return ptr - src
WA_return ==
    /\ wa.pc = "loop"
    /\ wa.len = 0
    /\ wa' = [wa EXCEPT !.ret = wa.ptr, !.pc = "done"]
    /\ UNCHANGED progvars

\* one call write_all(src, len, out) for each buffer length and each stream
\* behaviour within the bounds; no client issues a request
InitWA == \E len \in 0..MaxLen, sink \in SinkSeqs :
              InitWith({}, WaStart(len, sink))

NextWA == WA_fwrite \/ WA_return

SpecWA == InitWA /\ [][NextWA]_vars

\* ---------------------------------------------------------------- claims

\* the request of c has been inserted into a waiter list (line 270 is past)
Attached(c) == cpc[c] \in {"prewait", "waiting", "woken", "done"} /\ entry[c] # NULL

\* the reader thread of s has opened its device and not yet closed it
Holds(s, d) == sdev[s] = d /\ pc[s] \notin {"none", "done"}

Registered(s) == \E i \in 1..Len(devlist) : devlist[i] = s

\* C1: a request completed with success (outcome 0), all sink writes having
\* succeeded, has had exactly nb * sample_size payload bytes written to its
\* sink, and read_buffer returns nb * sample_size for it.
C1_ExactPayload ==
    \A c \in Clients :
        (sinkfail = 0 /\ Attached(c) /\ err[c] = 0) =>
            /\ payload[c] = cnb[c] * css[c]
            /\ cpc[c] = "done" => result[c] = cnb[c] * css[c]

\* C2: once the reader thread of a session whose hardware read failed has
\* drained the session, every request attached to it is out of the waiter
\* list with the read's code as outcome (or was satisfied before, outcome
\* 0), and a returned read_buffer call has returned that outcome.
C2_ErrorBroadcast ==
    \A s \in Sessions, c \in Clients :
        (pc[s] \in {"close", "done"} /\ ret[s] \in HwErrors
           /\ Attached(c) /\ entry[c] = s) =>
            /\ ~InList(s, c)
            /\ err[c] \in {0, ret[s]}
            /\ cpc[c] = "done" /\ err[c] < 0 => result[c] = ret[s]

\* C3: the registry holds at most one session per device, and at most one
\* session at a time has a device opened and not yet closed.
C3_ExclusiveDevice ==
    \A d \in Devices :
        /\ Cardinality({s \in Sessions : Registered(s) /\ sdev[s] = d}) <= 1
        /\ Cardinality({s \in Sessions : Holds(s, d)}) <= 1

\* C4: a reader thread inside iio_device_read_raw holds neither the
\* registry lock nor any waiter lock.
C4_NoLockAcrossRead ==
    \A s \in Sessions :
        pc[s] = "read" =>
            /\ devlist_lock # W(s)
            /\ \A e \in Sessions : thdlist_lock[e] # W(s)

\* C4 witness: a read is in progress while a client holds the registry lock
\* and is about to attach to the reading session.
C4_Witness ==
    \E s \in Sessions, c \in Clients :
        pc[s] = "read" /\ devlist_lock = c /\ cpc[c] = "attach" /\ entry[c] = s

\* C5: no client is blocked in pthread_cond_wait with its outcome already
\* set (and its one signal already sent): every client whose outcome is
\* delivered is woken and does not stay blocked forever.
C5_NoLostWakeup ==
    \A c \in Clients : ~(cpc[c] = "waiting" /\ err[c] # Unset)

\* some registered session for the device of c's request has another
\* sample size than the request
MismatchFor(c) ==
    \E i \in 1..Len(devlist) :
        sdev[devlist[i]] = cdev[c] /\ sample_size[devlist[i]] # css[c]

\* C6: a request that meets a registered session of another sample size
\* returns -EINVAL at once with the registry lock released, and changes no
\* session, no waiter list, no record and no sink.
C6_MismatchNoEffect ==
    [][\A c \in Clients :
         (cpc[c] = "locked" /\ cpc'[c] # "locked" /\ MismatchFor(c)) =>
            /\ cpc'[c] = "done"
            /\ result'[c] = -EINVAL
            /\ devlist_lock' = NoThread
            /\ UNCHANGED <<devlist, sessvars, wvars, recvars, payload>>]_vars

\* C6 witness: a request was refused with -EINVAL while the session it
\* conflicted with still has a waiter.
C6_Witness ==
    \E c \in Clients, s \in Sessions :
        /\ cpc[c] = "done" /\ result[c] = -EINVAL
        /\ Registered(s) /\ sdev[s] = cdev[c] /\ sample_size[s] # css[c]
        /\ head[s] # NULL

\* C7: a reader thread whose read failed leaves its loop at the next check
\* and is out of the registry once it has drained; a request that takes the
\* registry lock after that never gets the removed session as its entry:
\* finding no entry for its device it either fails or creates a new entry,
\* registers it and starts a new reader thread on it.
C7_FreshSession ==
    /\ [](\A s \in Sessions : pc[s] \in {"close", "done"} => ~Registered(s))
    /\ [][\A s \in Sessions :
            /\ (pc[s] = "check" /\ ret[s] < 0 /\ pc'[s] # "check")
                 => pc'[s] = "exit"
            /\ \A c \in Clients :
                 (pc[s] \in {"close", "done"} /\ cpc[c] \in {"start", "locked"})
                    => /\ entry'[c] # s
                       /\ (cdev[c] = sdev[s] /\ cpc'[c] = "attach"
                             /\ ~\E e \in Sessions : Registered(e) /\ sdev[e] = cdev[c])
                            => /\ entry'[c] = c
                               /\ pc[c] = "none" /\ pc'[c] = "lock_dev"
                               /\ devlist' = <<c>> \o devlist]_vars

\* C7 witness: after a session failed and terminated, a later request for
\* the same device ran on a session of its own and completed with success.
C7_Witness ==
    \E s \in Sessions, c \in Clients :
        /\ c # s /\ pc[s] = "done" /\ ret[s] \in HwErrors
        /\ cdev[c] = sdev[s] /\ entry[c] = c
        /\ cpc[c] = "done" /\ err[c] = 0 /\ result[c] = cnb[c] * css[c]

\* position of a reader thread on its way out of the loop
ExitRank(l) ==
    CASE l = "check" -> 1 [] l = "sizing" -> 2 [] l = "exit" -> 3
      [] l = "drain" -> 4 [] l = "close" -> 5 [] l = "done" -> 6
      [] OTHER -> 0

\* C8: a reader thread that holds the registry lock at the top of its loop
\* with an empty waiter list (and no failed read) does no further hardware
\* read: step by step it finds the list empty, leaves the loop, drains
\* nothing, removes its entry from the registry, closes and terminates; and
\* no buffer is allocated or read issued with an empty waiter list.
C8_StopsWhenEmpty ==
    /\ [](\A s \in Sessions : pc[s] \in {"malloc", "read"} => head[s] # NULL)
    /\ [][\A s \in Sessions :
            (head[s] = NULL /\ ret[s] >= 0 /\ ExitRank(pc[s]) \in 1..5) =>
               /\ head'[s] = NULL
               /\ ExitRank(pc'[s]) \in {ExitRank(pc[s]), ExitRank(pc[s]) + 1}
               /\ pc'[s] \in {"close", "done"} => ~Registered(s)']_vars

\* C8 witness: a session whose waiter completed with success has terminated
\* without a failed read.
C8_Witness ==
    \E s \in Sessions, c \in Clients :
        pc[s] = "done" /\ ret[s] >= 0 /\ entry[c] = s /\ err[c] = 0

\* C9: the remaining count of a live record never increases and never goes
\* below zero.
C9_NbMonotone ==
    [][\A c \in Clients :
         (rstate[c] = "live" /\ rstate'[c] = "live") =>
            nb'[c] <= nb[c] /\ nb'[c] >= 0]_vars

\* C10: a record is signalled only after it left the waiter list with its
\* outcome set, the outcome once set never changes, a record out of the
\* list never re-enters it, and every attached record has been removed with
\* an outcome by the time its session's reader thread is through the drain.
C10_RemovedOnce ==
    /\ [](\A c \in Clients :
            /\ (cpc[c] \in {"woken", "done"} /\ entry[c] # NULL) =>
                  err[c] # Unset /\ ~InList(entry[c], c)
            /\ \A s \in Sessions :
                  (pc[s] \in {"close", "done"} /\ Attached(c) /\ entry[c] = s)
                      => ~InList(s, c) /\ err[c] # Unset)
    /\ [][\A c \in Clients :
            /\ err[c] # Unset => err'[c] = err[c]
            /\ (Attached(c) /\ ~InList(entry[c], c)) => ~InList(entry[c], c)']_vars

\* the distribution loop of some session does one pass for the record c in
\* this step
DistPass(s, c) ==
    /\ pc[s] = "dist"
    /\ cursor[s] = c
    /\ (cursor'[s] # c \/ pc'[s] # "dist")

\* C11: over the life of a request exactly one status line is written to
\* its sink, and a round whose read succeeded writes none: a status line is
\* written at most once per request and only by a round whose read failed.
C11_OneStatusLine ==
    [][\A c \in Clients :
         status'[c] # status[c] =>
            /\ status[c] = 0
            /\ \A s \in Sessions : DistPass(s, c) => ret[s] < 0]_vars

\* C11 as amended: status lines are written by the passes of the
\* distribution loop and by nothing else (not by the drain, not at
\* completion).  A pass writes one status line to the record's sink when the
\* connection is not verbose, whether the read succeeded or failed, and
\* when the connection is verbose only if the read failed.
C11_StatusPerPass ==
    [][\A c \in Clients :
         status'[c] - status[c] =
            IF \E s \in Sessions :
                  DistPass(s, c) /\ (~verbose[c] \/ ret[s] < 0)
            THEN 1 ELSE 0]_vars

\* C11 witness: a request on a connection that is not verbose has completed
\* with success after two status lines, one per round.
C11_Witness ==
    \E c \in Clients :
        /\ ~verbose[c] /\ cpc[c] = "done" /\ result[c] > 0
        /\ status[c] = 2 /\ payload[c] = cnb[c] * css[c]

\* the i-th fwrite of the call transferred nothing
ZeroAttempt(i) == i > Len(wa.sink0) \/ wa.sink0[i] = 0

\* C12: write_all terminates on every sink (at most one fwrite per byte of
\* the buffer); the bytes go out in order; it returns the full length when
\* every attempt made progress, all bytes having been transferred, and
\* returns -EIO at the first attempt that transfers nothing, with no attempt
\* after it.
C12_WriteAll ==
    /\ wa.calls <= wa.len0
    /\ wa.ptr + wa.len = wa.len0
    /\ \A i \in 1..wa.calls : ZeroAttempt(i) => i = wa.calls /\ wa.pc = "done"
    /\ wa.pc = "done" =>
          /\ ~ENABLED NextWA
          /\ IF wa.calls > 0 /\ ZeroAttempt(wa.calls)
             THEN wa.ret = -EIO /\ wa.ptr < wa.len0
             ELSE wa.ret = wa.len0 /\ wa.ptr = wa.len0
    /\ wa.pc = "loop" => ENABLED NextWA

\* C12 witness: a call has failed at its second fwrite, after a first one that
\* transferred part of the buffer.
C12_Witness ==
    /\ wa.pc = "done" /\ wa.ret = -EIO /\ wa.calls = 2
    /\ wa.ptr > 0 /\ wa.ptr < wa.len0

\* the smallest remaining count among the records of S
LeastNb(S) == CHOOSE n \in {nb[c] : c \in S} : \A c \in S : n <= nb[c]

\* C13: in every round the number of samples requested from the hardware is
\* the smaller of the cap, 1024 / sample_size rounded down, and the least
\* remaining count among the waiters in the list when the batch is sized;
\* the read is asked for that many samples times sample_size bytes (so it
\* returns no more).
C13_BatchSize ==
    \A s \in Sessions :
        pc[s] \in {"malloc", "read", "lock_thd"} =>
            /\ sized[s] # {}
            /\ nb_samples[s] =
                  Min(MaxBytes \div sample_size[s], LeastNb(sized[s]))
            /\ pc[s] = "lock_thd" =>
                  ret[s] <= nb_samples[s] * sample_size[s]

\* C13 witness: a round was sized at the cap of 512 two-byte samples for a
\* waiter that has more to receive, and the read returned the 1024 bytes.
C13_Witness ==
    \E s \in Sessions :
        /\ pc[s] = "lock_thd" /\ sample_size[s] = 2
        /\ nb_samples[s] = MaxBytes \div 2 /\ ret[s] = MaxBytes
        /\ \A c \in sized[s] : nb[c] > nb_samples[s]

C16_WriteFailureRemoves ==
    [][\A s \in Sessions, c \in Clients :
         (DistPass(s, c) /\ sinkfail' = sinkfail + 1) =>
            /\ ~InList(s, c)'
            /\ err'[c] = -EIO
            /\ nb'[c] = nb[c]
            /\ cpc'[c] # "waiting"]_vars

\* the reader thread of s has left its read loop and not yet removed the
\* session from the registry
Leaving(s) == pc[s] \in {"exit", "drain", "drain_next"}

\* C17: on every way out of the read loop the reader thread holds
\* devlist_lock and not thdlist_lock, and it holds devlist_lock from then on
\* until the session is drained and removed from the registry; meanwhile no
\* client attaches to the session.
C17_ExitPosture ==
    /\ [](\A s \in Sessions :
            /\ Leaving(s) => devlist_lock = W(s) /\ Registered(s)
            /\ pc[s] = "exit" => thdlist_lock[s] # W(s)
            /\ pc[s] \in {"close", "done"} => ~Registered(s))
    /\ [][\A s \in Sessions, c \in Clients :
            Leaving(s) =>
               /\ ~InList(s, c) => ~InList(s, c)'
               /\ entry[c] # s => entry'[c] # s]_vars

\* C17 witness: the reader thread has left the loop on a failed allocation
\* with a waiter in the list, while another client has yet to make its
\* request.
C17_Witness ==
    \E s \in Sessions, c \in Clients :
        /\ pc[s] = "exit" /\ ret[s] = -ENOMEM /\ head[s] # NULL
        /\ cpc[c] = "start"

Threads == Clients \cup {W(s) : s \in Sessions}

\* t is at pthread_mutex_lock(&devlist_lock): lines 201 and 93
AtDevlistLock(t) ==
    \/ t \in Clients /\ cpc[t] = "start"
    \/ \E s \in Sessions : t = W(s) /\ pc[s] = "lock_dev"

\* the owner of the lock t is about to take (NoThread if the lock is free
\* or t is not at a lock call): lines 201 and 269 for a client, lines 93,
\* 100, 124 and 169 for a reader thread
WaitsFor(t) ==
    IF t \in Clients
    THEN IF cpc[t] = "start" THEN devlist_lock
         ELSE IF cpc[t] = "attach" THEN thdlist_lock[entry[t]]
         ELSE NoThread
    ELSE LET s == t - NumClients IN
         IF pc[s] = "lock_dev" THEN devlist_lock
         ELSE IF \/ pc[s] \in {"lock_thd", "exit"}
                 \/ pc[s] = "check" /\ ret[s] >= 0
         THEN thdlist_lock[s]
         ELSE NoThread

\* following WaitsFor from t ends at a thread that is not blocked within k
\* steps
RECURSIVE Unblocks(_, _)
Unblocks(t, k) ==
    IF t = NoThread THEN TRUE
    ELSE IF k = 0 THEN FALSE
    ELSE Unblocks(WaitsFor(t), k - 1)

\* C18: no thread is at the acquisition of devlist_lock while it holds a
\* thdlist_lock, a thread that holds a thdlist_lock without devlist_lock is
\* not at any lock call, and no set of threads waits in a cycle for
\* devlist_lock and the thdlist_locks.
C18_LockOrder ==
    \A t \in Threads :
        /\ AtDevlistLock(t) => \A s \in Sessions : thdlist_lock[s] # t
        /\ ((\E s \in Sessions : thdlist_lock[s] = t) /\ devlist_lock # t)
              => WaitsFor(t) = NoThread
        /\ Unblocks(t, 2 * NumClients + 1)

\* C18 witness: a reader thread is blocked at devlist_lock while the reader
\* thread of another session holds devlist_lock and its thdlist_lock.
C18_Witness ==
    \E s \in Sessions, e \in Sessions :
        /\ s # e /\ pc[e] = "lock_dev"
        /\ devlist_lock = W(s) /\ thdlist_lock[s] = W(s)

\* C19: the reader thread reads no record that its owner has freed: every
\* record it reads in a pass of the distribution or drain loop, and every
\* record whose link it reads to advance the loop, is live.
C19_NoUseAfterFree ==
    [][\A s \in Sessions :
         (pc[s] \in {"dist", "drain", "dist_next", "drain_next"}
             /\ cursor[s] # NULL
             /\ (pc'[s] # pc[s] \/ cursor'[s] # cursor[s]))
            => rstate[cursor[s]] = "live"]_vars

\* C20: whatever the sample size, a batch sized for waiters that all have at
\* least one sample left is of at least one sample (the read is not of zero
\* bytes).
C20_BatchAtLeastOne ==
    \A s \in Sessions :
        (pc[s] \in {"malloc", "read"} /\ \A c \in sized[s] : nb[c] >= 1) =>
            nb_samples[s] >= 1 /\ nb_samples[s] * sample_size[s] >= 1

====
